---- MODULE Spec2Model ----
(***************************************************************************)
(* Model of the Ansible module ec2_find_asg (ec2_find_asg.py): main()      *)
(* connects to the Auto Scaling service, find() lists the region's groups, *)
(* match() keeps the groups whose tags contain every search tag and        *)
(* get_properties() builds the report of each kept group.                  *)
(*                                                                         *)
(* Python values are modelled as follows.  A dict is a function; the empty *)
(* dict is <<>>.  A value that may be None is a record                     *)
(* [none |-> BOOLEAN, items |-> value]; a list is a sequence.  A function  *)
(* that may raise returns [exc |-> name-or-"none", ...].                   *)
(***************************************************************************)
EXTENDS Integers, Sequences, FiniteSets, TLC

VARIABLES
    pc,                \* position of the invocation
    args_tags,         \* module.params['tags'] as supplied by the playbook
    region_groups,     \* the groups the Auto Scaling service holds in the region
    connection,        \* local `connection` of main
    search_tags,       \* local `search_tags` of main, the argument of match
    as_groups,         \* local `as_groups` of find, the argument of match
    ret,               \* outcome of find(connection, search_tags)
    out,               \* what the invocation reported to the caller (fail_json / exit_json)
    n_connect,         \* calls of connect_to_aws
    n_get_all_groups,  \* calls of connection.get_all_groups
    n_match,           \* calls of match
    autoscaling_group, \* argument of a direct call of get_properties
    properties         \* result of that call

vars == <<pc, args_tags, region_groups, connection, search_tags, as_groups, ret,
          out, n_connect, n_get_all_groups, n_match, autoscaling_group, properties>>

-----------------------------------------------------------------------------
(* Bounds of the model *)

MaxGroups == 2
MaxTags == 2
MaxInstances == 2

-----------------------------------------------------------------------------
(* Value domains *)

TagKeys == {"env", "team"}
TagValues == {"prod", "dev"}
InstanceIds == {"i-1", "i-2"}
HealthStatuses == {"Healthy", "Unhealthy"}
LifecycleStates == {"InService", "Pending", "Terminating", "Standby"}
GroupNames == <<"asg-1", "asg-2", "asg-3">>

None == [none |-> TRUE, items |-> <<>>]
Some(v) == [none |-> FALSE, items |-> v]

\* Sequences over S of length at most n.
SeqsUpTo(S, n) == UNION {[1..m -> S] : m \in 0..n}

Tag == [key : TagKeys, value : TagValues]

\* Tag lists of a group: the service keeps tag keys unique per group.
TagLists ==
    {s \in SeqsUpTo(Tag, MaxTags) :
        \A i, j \in 1..Len(s) : i # j => s[i].key # s[j].key}

Instance == [instance_id : InstanceIds, health_status : HealthStatuses,
             lifecycle_state : LifecycleStates, launch_config_name : {"lc-1"}]

InstanceLists == SeqsUpTo(Instance, MaxInstances)

\* A tag filter: a dict from keys to values; {} is permitted.
TagFilters == UNION {[K -> TagValues] : K \in SUBSET TagKeys}

ASG_ATTRIBUTES ==
    {"availability_zones", "default_cooldown", "desired_capacity",
     "health_check_period", "health_check_type", "launch_config_name",
     "load_balancers", "max_size", "min_size", "name", "placement_group",
     "termination_policies", "vpc_zone_identifier"}

\* A boto AutoScalingGroup: the attributes of ASG_ATTRIBUTES, tags and instances.
\* boto leaves tags and instances at None until the response sets them.
Group(name, tags, instances) ==
    [availability_zones |-> <<"us-west-1a">>, default_cooldown |-> 300,
     desired_capacity |-> 1, health_check_period |-> 300,
     health_check_type |-> "EC2", launch_config_name |-> "lc-1",
     load_balancers |-> <<"elb-1">>, max_size |-> 2, min_size |-> 0,
     name |-> name, placement_group |-> "", termination_policies |-> <<"Default">>,
     vpc_zone_identifier |-> "subnet-1",
     tags |-> tags, instances |-> instances]

OptTagLists == {None} \cup {Some(t) : t \in TagLists}
OptInstanceLists == {None} \cup {Some(l) : l \in InstanceLists}

-----------------------------------------------------------------------------
(* get_properties *)

\* dict((t.key, t.value) for t in tags): a later tag of the same key wins.
RECURSIVE TagsDict(_)
TagsDict(tags) ==
    IF tags = <<>> THEN <<>>
    ELSE LET n == Len(tags)
         IN  (tags[n].key :> tags[n].value) @@ TagsDict(SubSeq(tags, 1, n - 1))

\* properties[k] = v
SetItem(d, k, v) == (k :> v) @@ d

\* properties[k] += 1
Incr(d, k) == (k :> (d[k] + 1)) @@ d

Counters ==
    [healthy_instances |-> 0, in_service_instances |-> 0, unhealthy_instances |-> 0,
     pending_instances |-> 0, viable_instances |-> 0, terminating_instances |-> 0]

InitialProperties(g) == Counters @@ [attr \in ASG_ATTRIBUTES |-> g[attr]]

\* `if autoscaling_group.instances:` is true of a non-empty list only.
HasInstances_emptyListTruthy(g) == ~g.instances.none
HasInstances(g) == ~g.instances.none /\ g.instances.items # <<>>

InstanceFact(i) ==
    [health_status |-> i.health_status, lifecycle_state |-> i.lifecycle_state,
     launch_config_name |-> i.launch_config_name]

\* instance_facts[i.instance_id] = {...}, in list order.
RECURSIVE InstanceFacts(_)
InstanceFacts(instances) ==
    IF instances = <<>> THEN <<>>
    ELSE LET n == Len(instances)
         IN  (instances[n].instance_id :> InstanceFact(instances[n]))
                 @@ InstanceFacts(SubSeq(instances, 1, n - 1))

CountViable_healthOnly(p, i) ==
    IF i.health_status = "Healthy" THEN Incr(p, "viable_instances") ELSE p
CountViable(p, i) ==
    IF i.health_status = "Healthy" /\ i.lifecycle_state = "InService"
    THEN Incr(p, "viable_instances") ELSE p

CountHealth_ifUnhealthy(p, i) ==
    LET q == IF i.health_status = "Healthy" THEN Incr(p, "healthy_instances") ELSE p
    IN  Incr(q, "unhealthy_instances")
CountHealth(p, i) ==
    IF i.health_status = "Healthy"
    THEN Incr(p, "healthy_instances")
    ELSE Incr(p, "unhealthy_instances")

CountLifecycle_elsePending(p, i) ==
    LET a == IF i.lifecycle_state = "InService" THEN Incr(p, "in_service_instances") ELSE p
        b == IF i.lifecycle_state = "Terminating" THEN Incr(a, "terminating_instances") ELSE a
    IN  IF i.lifecycle_state \notin {"InService", "Terminating"}
        THEN Incr(b, "pending_instances") ELSE b
CountLifecycle(p, i) ==
    LET a == IF i.lifecycle_state = "InService" THEN Incr(p, "in_service_instances") ELSE p
        b == IF i.lifecycle_state = "Terminating" THEN Incr(a, "terminating_instances") ELSE a
    IN  IF i.lifecycle_state = "Pending" THEN Incr(b, "pending_instances") ELSE b

\* The body of `for i in autoscaling_group.instances`, from instance k on.
RECURSIVE InstanceLoop(_, _, _)
InstanceLoop(p, instances, k) ==
    IF k > Len(instances) THEN p
    ELSE InstanceLoop(
            CountLifecycle(CountHealth(CountViable(p, instances[k]), instances[k]),
                           instances[k]),
            instances, k + 1)

\* getattr(autoscaling_group, "tags", None) is true of a non-empty tag list only.
HasTags_emptyListTruthy(g) == ~g.tags.none
HasTags(g) == ~g.tags.none /\ g.tags.items # <<>>

get_properties(g) ==
    LET p0 == InitialProperties(g)
        p1 == IF HasInstances(g)
              THEN LET l == g.instances.items
                       a == SetItem(p0, "instances", [k \in 1..Len(l) |-> l[k].instance_id])
                       b == InstanceLoop(a, l, 1)
                   IN  SetItem(b, "instance_facts", InstanceFacts(l))
              ELSE p0
        p2 == SetItem(p1, "load_balancers", g.load_balancers)
    IN  IF HasTags(g) THEN SetItem(p2, "tags", TagsDict(g.tags.items)) ELSE p2

-----------------------------------------------------------------------------
(* match and find *)

\* set(d.iteritems())
Items(d) == {<<k, d[k]>> : k \in DOMAIN d}

\* dict(pairs) for pairs taken from dicts, hence with unique keys.
DictOfItems(S) == [k \in {p[1] : p \in S} |-> (CHOOSE p \in S : p[1] = k)[2]]

\* dict(set.intersection(set(a.iteritems()), set(b.iteritems())))
tags_intersection(as_group_tags, filter) ==
    DictOfItems(Items(as_group_tags) \cap Items(filter))

\* The loop of match from group k on; acc is matching_as_groups_list.
\* Iterating as_group.tags raises TypeError when tags is None, and
\* search_tags.iteritems() raises AttributeError when search_tags is None.
RECURSIVE MatchLoop(_, _, _, _)
MatchLoop(groups, filter, k, acc) ==
    IF k > Len(groups) THEN [exc |-> "none", as_groups |-> acc]
    ELSE IF groups[k].tags.none THEN [exc |-> "TypeError", as_groups |-> <<>>]
    ELSE IF filter.none THEN [exc |-> "AttributeError", as_groups |-> <<>>]
    ELSE IF tags_intersection(TagsDict(groups[k].tags.items), filter.items) = filter.items
         THEN MatchLoop(groups, filter, k + 1, Append(acc, get_properties(groups[k])))
         ELSE MatchLoop(groups, filter, k + 1, acc)

match(groups, filter) == MatchLoop(groups, filter, 1, <<>>)

\* find: as_groups = connection.get_all_groups(); return match(as_groups, search_tags)
find(groups, filter) == match(groups, filter)

-----------------------------------------------------------------------------
(* main *)

NoReturn == [exc |-> "none", as_groups |-> <<>>]
DefaultGroup == Group("asg-1", None, None)

\* Instance lists of the groups the region holds.
FetchedInstanceLists ==
    {None,
     Some(<<[instance_id |-> "i-1", health_status |-> "Healthy",
             lifecycle_state |-> "InService", launch_config_name |-> "lc-1"]>>)}

\* The region holds up to MaxGroups groups, of distinct names.
IsRegionGroupList(groups) ==
    \E m \in 0..MaxGroups :
        \E t \in [1..m -> OptTagLists], i \in [1..m -> FetchedInstanceLists] :
            groups = [k \in 1..m |-> Group(GroupNames[k], t[k], i[k])]

\* AnsibleModule(argument_spec): tags is declared dict(type='dict'), not
\* required, so params['tags'] is None when the task gives no tags.
ArgsTags == {None} \cup {Some(f) : f \in TagFilters}

Init ==
    /\ pc = "start"
    /\ args_tags \in ArgsTags
    /\ IsRegionGroupList(region_groups)
    /\ connection = "unset"
    /\ search_tags = None
    /\ as_groups = <<>>
    /\ ret = NoReturn
    /\ out = <<>>
    /\ n_connect = 0
    /\ n_get_all_groups = 0
    /\ n_match = 0
    /\ autoscaling_group = DefaultGroup
    /\ properties = <<>>

\* module.fail_json(msg=...): reports the failure and exits the process.
fail_json(msg) ==
    /\ out' = Append(out, [failed |-> TRUE, msg |-> msg])
    /\ pc' = "failed"

\* connect_to_aws returned a connection.
ConnectOk ==
    /\ pc = "start"
    /\ n_connect' = n_connect + 1
    /\ connection' = "connection"
    /\ pc' = "connected"
    /\ UNCHANGED <<args_tags, region_groups, search_tags, as_groups, ret, out,
                   n_get_all_groups, n_match, autoscaling_group, properties>>

\* connect_to_aws returned None, or raised NoAuthHandlerFound.
ConnectFail_continues ==
    /\ pc = "start"
    /\ n_connect' = n_connect + 1
    /\ \E how \in {"none", "NoAuthHandlerFound"} :
          /\ connection' = IF how = "none" THEN "None" ELSE "unset"
          /\ out' = Append(out, [failed |-> TRUE, msg |-> how])
          /\ pc' = "connected"
    /\ UNCHANGED <<args_tags, region_groups, search_tags, as_groups, ret,
                   n_get_all_groups, n_match, autoscaling_group, properties>>
ConnectFail ==
    /\ pc = "start"
    /\ n_connect' = n_connect + 1
    /\ \E how \in {"none", "NoAuthHandlerFound"} :
          /\ connection' = IF how = "none" THEN "None" ELSE "unset"
          /\ fail_json(IF how = "none"
                       THEN "failed to connect to AWS for the given region"
                       ELSE "No handler was ready to authenticate")
    /\ UNCHANGED <<args_tags, region_groups, search_tags, as_groups, ret,
                   n_get_all_groups, n_match, autoscaling_group, properties>>

\* search_tags = module.params.get('tags'); find(connection, search_tags).
\* The value find returns is dropped (the exit_json call is commented out)
\* and main returns; an exception of match ends the process with a traceback.
Find ==
    /\ pc = "connected"
    /\ search_tags' = args_tags
    /\ as_groups' = region_groups
    /\ n_get_all_groups' = n_get_all_groups + 1
    /\ n_match' = n_match + 1
    /\ ret' = find(region_groups, args_tags)
    /\ pc' = IF ret'.exc = "none" THEN "returned" ELSE "crashed"
    /\ UNCHANGED <<args_tags, region_groups, connection, out, n_connect,
                   autoscaling_group, properties>>

Next == ConnectOk \/ ConnectFail \/ Find

Spec == Init /\ [][Next]_vars

-----------------------------------------------------------------------------
(* get_properties applied to one group *)

ExtractInit ==
    /\ pc = "extract"
    /\ \E t \in OptTagLists, i \in OptInstanceLists :
          autoscaling_group = Group("asg-1", t, i)
    /\ properties = <<>>
    /\ args_tags = None
    /\ region_groups = <<>>
    /\ connection = "unset"
    /\ search_tags = None
    /\ as_groups = <<>>
    /\ ret = NoReturn
    /\ out = <<>>
    /\ n_connect = 0
    /\ n_get_all_groups = 0
    /\ n_match = 0

Extract ==
    /\ pc = "extract"
    /\ properties' = get_properties(autoscaling_group)
    /\ pc' = "extracted"
    /\ UNCHANGED <<args_tags, region_groups, connection, search_tags, as_groups, ret,
                   out, n_connect, n_get_all_groups, n_match, autoscaling_group>>

ExtractNext == Extract

SpecExtract == ExtractInit /\ [][ExtractNext]_vars

-----------------------------------------------------------------------------
(* Properties of main, find and match, checked under Spec *)

\* The (key, value) pairs a group carries; a group without tags carries none.
GroupTagPairs(g) ==
    IF g.tags.none THEN {}
    ELSE {<<g.tags.items[k].key, g.tags.items[k].value>> : k \in 1..Len(g.tags.items)}

\* Every pair of the filter F is a pair of the group.
Satisfies(g, F) == \A k \in DOMAIN F : <<k, F[k]>> \in GroupTagPairs(g)

ZeroTags(g) == GroupTagPairs(g) = {}

\* The reports of the groups satisfying F, in the order of the groups.
RECURSIVE ExpectedReports(_, _)
ExpectedReports(groups, F) ==
    IF groups = <<>> THEN <<>>
    ELSE LET rest == ExpectedReports(Tail(groups), F)
         IN  IF Satisfies(Head(groups), F)
             THEN <<get_properties(Head(groups))>> \o rest
             ELSE rest

Reported(r, g) == \E j \in 1..Len(r.as_groups) : r.as_groups[j].name = g.name

\* C1: for every list of groups and every tag filter, match returns under
\* as_groups exactly the reports of the groups whose tags contain every pair
\* of the filter, one per group and in the order of the groups.
C1_MatchReturnsSatisfyingGroups ==
    (n_match > 0 /\ ~search_tags.none) =>
        /\ ret.exc = "none"
        /\ ret.as_groups = ExpectedReports(as_groups, search_tags.items)

\* C2: an invocation that connected and finished successfully has reported a
\* result record holding the as_groups computed by find.
C2_ResultReported ==
    pc = "returned" =>
        \E j \in 1..Len(out) : ~out[j].failed /\ out[j].as_groups = ret.as_groups

\* C3: when the connection is not established the invocation reports one
\* failure with a message and stops: the groups are never listed, match is
\* never called, nothing is computed and connect is not attempted again.
C3_ConnectFailureIsTerminal ==
    (n_connect > 0 /\ connection # "connection") =>
        /\ pc = "failed"
        /\ Len(out) = 1 /\ out[1].failed /\ out[1].msg # ""
        /\ n_get_all_groups = 0
        /\ n_match = 0
        /\ ret = NoReturn
        /\ n_connect = 1
        /\ ~ENABLED Next

C3_Witness ==
    /\ pc = "failed"
    /\ n_connect = 1
    /\ Len(out) = 1
    /\ Len(region_groups) > 0

\* C4: tags is required, so match is never called with an absent (None)
\* tag filter.
C4_MatchNeverGetsNoneFilter == n_match > 0 => ~search_tags.none

\* C5: match handles a group with zero tags (tags empty or None) without
\* error: the group is returned for the empty filter only, and the other
\* groups of the call are matched as usual.
C5_ZeroTagGroupsHandled ==
    (n_match > 0 /\ ~search_tags.none) =>
        \A k \in 1..Len(as_groups) :
            ZeroTags(as_groups[k]) =>
                /\ ret.exc = "none"
                /\ Reported(ret, as_groups[k]) <=> (search_tags.items = <<>>)
                /\ \A m \in 1..Len(as_groups) :
                       Reported(ret, as_groups[m])
                           <=> Satisfies(as_groups[m], search_tags.items)

-----------------------------------------------------------------------------
(* Properties of get_properties, checked under SpecExtract *)

InstancesOf(g) == IF g.instances.none THEN <<>> ELSE g.instances.items

\* Number of instances of the list l with health in H and lifecycle in L.
CountOf(l, H, L) ==
    Cardinality({k \in 1..Len(l) :
                    l[k].health_status \in H /\ l[k].lifecycle_state \in L})

\* C6: healthy_instances + unhealthy_instances is the number of instances:
\* an instance counts as healthy iff its health_status is Healthy and as
\* unhealthy otherwise.
C6_HealthPartition ==
    pc = "extracted" =>
        LET l == InstancesOf(autoscaling_group)
        IN  /\ properties.healthy_instances = CountOf(l, {"Healthy"}, LifecycleStates)
            /\ properties.unhealthy_instances
                  = CountOf(l, HealthStatuses \ {"Healthy"}, LifecycleStates)
            /\ properties.healthy_instances + properties.unhealthy_instances = Len(l)

C6_Witness ==
    /\ pc = "extracted"
    /\ LET l == InstancesOf(autoscaling_group)
       IN  /\ Len(l) = 2
           /\ l[1].instance_id = l[2].instance_id
           /\ l[1].health_status = "Healthy"
           /\ l[2].health_status = "Unhealthy"
    /\ properties.healthy_instances = 1
    /\ properties.unhealthy_instances = 1

\* C7: viable_instances is the number of instances that are both Healthy and
\* InService.
C7_ViableConjunction ==
    pc = "extracted" =>
        properties.viable_instances
            = CountOf(InstancesOf(autoscaling_group), {"Healthy"}, {"InService"})

C7_Witness ==
    /\ pc = "extracted"
    /\ LET l == InstancesOf(autoscaling_group)
       IN  /\ \E k \in 1..Len(l) :
                  l[k].health_status = "Healthy" /\ l[k].lifecycle_state # "InService"
           /\ \E k \in 1..Len(l) :
                  l[k].health_status # "Healthy" /\ l[k].lifecycle_state = "InService"
    /\ properties.viable_instances = 0

CounterNames ==
    {"healthy_instances", "unhealthy_instances", "in_service_instances",
     "pending_instances", "terminating_instances", "viable_instances"}

\* C8: a group without instances yields a report without instances and
\* instance_facts and with all six counters 0; a group with instances yields
\* a report with both fields, instances being the ids in instance order.
C8_NoInstanceOmission ==
    pc = "extracted" =>
        LET l == InstancesOf(autoscaling_group)
        IN  IF Len(l) = 0
            THEN /\ "instances" \notin DOMAIN properties
                 /\ "instance_facts" \notin DOMAIN properties
                 /\ \A c \in CounterNames : properties[c] = 0
            ELSE /\ "instances" \in DOMAIN properties
                 /\ "instance_facts" \in DOMAIN properties
                 /\ properties.instances = [k \in 1..Len(l) |-> l[k].instance_id]

C8_Witness ==
    /\ pc = "extracted"
    /\ ~autoscaling_group.instances.none
    /\ autoscaling_group.instances.items = <<>>
    /\ "instances" \notin DOMAIN properties

\* C9: in_service, pending and terminating count the instances of exactly
\* that lifecycle state, whatever their health; their sum is at most the
\* number of instances and less when an instance is in another state.
C9_LifecycleCounts ==
    pc = "extracted" =>
        LET l == InstancesOf(autoscaling_group)
            sum == properties.in_service_instances + properties.pending_instances
                       + properties.terminating_instances
        IN  /\ properties.in_service_instances = CountOf(l, HealthStatuses, {"InService"})
            /\ properties.pending_instances = CountOf(l, HealthStatuses, {"Pending"})
            /\ properties.terminating_instances
                  = CountOf(l, HealthStatuses, {"Terminating"})
            /\ sum <= Len(l)
            /\ (\E k \in 1..Len(l) :
                    l[k].lifecycle_state \notin {"InService", "Pending", "Terminating"})
                   => sum < Len(l)

C9_Witness ==
    /\ pc = "extracted"
    /\ LET l == InstancesOf(autoscaling_group)
       IN  /\ \E k \in 1..Len(l) : l[k].lifecycle_state = "Standby"
           /\ \E k \in 1..Len(l) :
                  l[k].lifecycle_state = "Pending" /\ l[k].health_status = "Unhealthy"
    /\ properties.pending_instances = 1

\* C10: the report has a tags field iff the group has at least one tag; the
\* field maps every tag key of the group to its value and is never empty.
C10_TagsFieldIffTagged ==
    pc = "extracted" =>
        LET g == autoscaling_group
        IN  /\ ("tags" \in DOMAIN properties) <=> ~ZeroTags(g)
            /\ "tags" \in DOMAIN properties =>
                  /\ DOMAIN properties.tags # {}
                  /\ DOMAIN properties.tags
                        = {g.tags.items[k].key : k \in 1..Len(g.tags.items)}
                  /\ \A k \in 1..Len(g.tags.items) :
                         properties.tags[g.tags.items[k].key] = g.tags.items[k].value

C10_Witness ==
    /\ pc = "extracted"
    /\ ~autoscaling_group.tags.none
    /\ autoscaling_group.tags.items = <<>>
    /\ "tags" \notin DOMAIN properties

====
